---- MODULE Spec2Model ----
(***************************************************************************)
(* Model of the streamlit-realtime-dashboard repository:                   *)
(*   src/forecast_dashboard.py  event deque, 10-second binning, 60-second  *)
(*                              forecast, forecast history, error metric   *)
(*   src/sales_dashboard.py     event deque (maxlen 200)                   *)
(*   src/app.py                 data list truncated to its last 100        *)
(*                                                                         *)
(* Representation.  Wall-clock readings (time.time()) are whole seconds.   *)
(* Money is a whole number of currency units.  A pandas datetime is a      *)
(* record [sec, ns]: seconds since the epoch and the nanoseconds within    *)
(* that second.  A pandas Series is a sequence of [bin, revenue] records   *)
(* in index order.  A mean is carried as six times its value (the series   *)
(* means are taken over 3 or 6 values, so this is exact), a quotient as a  *)
(* fraction [num, den].  One refresh pass (one run of the script) is one   *)
(* action; every clock reading inside a pass returns the same second.      *)
(***************************************************************************)
EXTENDS Integers, Sequences, FiniteSets

VARIABLES
    app,                \* which script this session runs
    clock,              \* wall clock, seconds since the epoch (UTC)
    utc_offset,         \* server local time minus UTC, seconds
    should_run,         \* st.session_state.should_run
    events,             \* st.session_state.events (forecast_dashboard.py)
    forecasts,          \* st.session_state.forecasts: <<issue time, value>>
    last_forecast_time, \* st.session_state.last_forecast_time
    sales_events,       \* st.session_state.sales_events (sales_dashboard.py)
    data,               \* st.session_state.data (app.py)
    revenue_bins,       \* the Series aggregate_to_10s_bins last returned
    forecast_val,       \* the value forecast_next_60s_simple last returned
    last_60s_actual,    \* realized revenue used by the last render
    latest_forecast,    \* predicted revenue used by the last render
    mape,               \* forecast error of the last render, a fraction
    rendered,           \* what the last pass drew: "none", "info", "dashboard"
    passes,             \* history: refresh passes run so far
    appended,           \* history: events appended to the buffer so far
    issued,             \* history: every forecast record ever issued
    applied,            \* history: functions applied to the drawn inputs
    slider_forecast_every \* the "Forecast Every" slider as the last pass read it

vars == <<app, clock, utc_offset, should_run, events, forecasts,
          last_forecast_time, sales_events, data, revenue_bins, forecast_val,
          last_60s_actual, latest_forecast, mape, rendered, passes, appended,
          issued, applied, slider_forecast_every>>

----------------------------------------------------------------------------
(* Program constants *)

EventsMaxlen == 1000
SalesEventsMaxlen == 200
DataKeep == 100
ForecastsKeep == 20
MinBins == 6
HalfBins == 3
BinSeconds == 10
WindowSeconds == 600
RecentSeconds == 60
NanosPerSecond == 1000000000
ForecastEveryMin == 20
ForecastEveryMax == 60
ForecastEveryDefault == 30
MaxOrdersPerTick == 4

(* Bounds of the model *)

StartTime == 1700000000
MaxPasses == 3
MaxLongPasses == 45
MaxOrders == 2
ShortDt == 3
LongDt == 30
Overrun == 6
UnitPrice == 25

UtcOffsets == {0 - 3600, 0, 3600}

----------------------------------------------------------------------------
(* Arithmetic and sequence helpers *)

Max(a, b) == IF a >= b THEN a ELSE b

Min(a, b) == IF a <= b THEN a ELSE b

Abs(x) == IF x >= 0 THEN x ELSE 0 - x

RECURSIVE SeqSum(_)
SeqSum(s) == IF s = <<>> THEN 0 ELSE Head(s) + SeqSum(Tail(s))

\* Series.head(n) / list[:n]
HeadN(s, n) == SubSeq(s, 1, Min(n, Len(s)))

\* Series.tail(n) / list[-n:]
TailN(s, n) == SubSeq(s, Len(s) - Min(n, Len(s)) + 1, Len(s))

----------------------------------------------------------------------------
(* pandas datetimes *)

Datetime(sec, ns) == [sec |-> sec, ns |-> ns]

\* pd.to_datetime(x, unit="s"): x counts seconds
to_datetime_s(x) == Datetime(x, 0)

\* pd.Timestamp(x) with no unit: a number counts NANOSECONDS since the epoch
Timestamp(x) == Datetime(x \div NanosPerSecond, x % NanosPerSecond)

\* pd.Timestamp.now(): the naive LOCAL time
TimestampNow(now, offset) == Datetime(now + offset, 0)

\* .floor("10s")
floor_10s(d) == Datetime((d.sec \div BinSeconds) * BinSeconds, 0)

\* d - pd.Timedelta(seconds=n)
MinusSeconds(d, n) == Datetime(d.sec - n, d.ns)

\* a > b on datetimes
After(a, b) == \/ a.sec > b.sec
               \/ a.sec = b.sec /\ a.ns > b.ns

DateRangeEndExcluded(start, end) ==
    IF ~After(end, start) THEN <<>>
    ELSE [i \in 1..((end.sec - start.sec) \div BinSeconds) |->
             Datetime(start.sec + (i - 1) * BinSeconds, start.ns)]

\* pd.date_range(start, end, freq="10s"): both ends included
date_range_10s(start, end) ==
    IF After(start, end) THEN <<>>
    ELSE [i \in 1..((end.sec - start.sec) \div BinSeconds + 1) |->
             Datetime(start.sec + (i - 1) * BinSeconds, start.ns)]

----------------------------------------------------------------------------
(* Event generators *)

\* generate_sales_event: one batch of orders, all stamped with the same
\* time.time() reading; prices is the sequence of the prices drawn
generate_sales_event(t, prices) ==
    [i \in 1..Len(prices) |-> [timestamp |-> t, price |-> prices[i]]]

----------------------------------------------------------------------------
(* Bounded buffers *)

DequeExtendDropsNewest(d, items, maxlen) == HeadN(d \o items, maxlen)

\* deque(maxlen=n).extend(items): appended on the right one at a time, the
\* leftmost item discarded whenever the deque is full
DequeExtend(d, items, maxlen) == TailN(d \o items, maxlen)

\* data.append(x); data = data[-keep:]
AppendKeepLast(l, x, keep) == TailN(Append(l, x), keep)

ForecastsTrimNewest(l) ==
    IF Len(l) > ForecastsKeep THEN SubSeq(l, 1, Len(l) - 1) ELSE l

\* if len(forecasts) > 20: forecasts.pop(0)
ForecastsTrim(l) == IF Len(l) > ForecastsKeep THEN Tail(l) ELSE l

----------------------------------------------------------------------------
(* Forecasting logic *)

Values(series) == [i \in DOMAIN series |-> series[i].revenue]

\* df["bin"] = to_datetime(df["timestamp"], unit="s").dt.floor("10s")
BinOf(e) == floor_10s(to_datetime_s(e.timestamp))

\* df.groupby("bin")["price"].sum() at one bin
RECURSIVE GroupSum(_, _)
GroupSum(evs, b) ==
    IF evs = <<>> THEN 0
    ELSE (IF BinOf(Head(evs)) = b THEN Head(evs).price ELSE 0)
         + GroupSum(Tail(evs), b)

\* the index of df.groupby("bin")
GroupKeys(evs) == {BinOf(evs[i]) : i \in DOMAIN evs}

EndBin(last_timestamp) == floor_10s(Timestamp(last_timestamp))

aggregate_to_10s_bins(evs, last_timestamp) ==
    IF evs = <<>> THEN <<>>
    ELSE LET end_bin == EndBin(last_timestamp)
             start_bin == MinusSeconds(end_bin, WindowSeconds)
             full_index == date_range_10s(start_bin, end_bin)
             groups == GroupKeys(evs)
         IN  \* reindex(full_index, fill_value=0.0); sort_index keeps the order
             [i \in DOMAIN full_index |->
                 [bin |-> full_index[i],
                  revenue |-> IF full_index[i] \in groups
                              THEN GroupSum(evs, full_index[i]) ELSE 0]]

\* six times the mean of a non-empty sequence (exact for 3 and for 6 values)
MeanTimes6(s) == (6 * SeqSum(s)) \div Len(s)

ForecastFullTrend(revenue_series) ==
    IF Len(revenue_series) < MinBins THEN 0
    ELSE LET recent == TailN(Values(revenue_series), MinBins) IN
         IF SeqSum(recent) = 0 THEN 0
         ELSE LET baseline6 == MeanTimes6(recent)
                  first6 == MeanTimes6(HeadN(recent, HalfBins))
                  last6 == MeanTimes6(TailN(recent, HalfBins))
                  trend6 == IF first6 > 0 THEN last6 - first6 ELSE 0
              IN  Max(0, baseline6 + trend6)

ForecastNoLengthGuard(revenue_series) ==
    IF Len(revenue_series) = 0 THEN 0
    ELSE LET recent == TailN(Values(revenue_series), MinBins) IN
         IF SeqSum(recent) = 0 THEN 0
         ELSE LET baseline6 == MeanTimes6(recent)
                  first6 == MeanTimes6(HeadN(recent, HalfBins))
                  last6 == MeanTimes6(TailN(recent, HalfBins))
                  trend6 == IF first6 > 0 THEN last6 - first6 ELSE 0
              IN  Max(0, baseline6 + trend6 \div 2)

ForecastNoClamp(revenue_series) ==
    IF Len(revenue_series) < MinBins THEN 0
    ELSE LET recent == TailN(Values(revenue_series), MinBins) IN
         IF SeqSum(recent) = 0 THEN 0
         ELSE LET baseline6 == MeanTimes6(recent)
                  first6 == MeanTimes6(HeadN(recent, HalfBins))
                  last6 == MeanTimes6(TailN(recent, HalfBins))
                  trend6 == IF first6 > 0 THEN last6 - first6 ELSE 0
              IN  baseline6 + trend6 \div 2

\* forecast_next_60s_simple.  baseline6, first6, last6 and trend6 are six
\* times baseline, first_30s, last_30s and trend; trend6 is even, so
\* trend6 \div 2 is exactly six times trend / 2, and the value returned,
\* pred_per_bin * 6, is Max(0, baseline6 + trend6 \div 2).
forecast_next_60s_simple(revenue_series) ==
    IF Len(revenue_series) < MinBins THEN 0
    ELSE LET recent == TailN(Values(revenue_series), MinBins) IN
         IF SeqSum(recent) = 0 THEN 0
         ELSE LET baseline6 == MeanTimes6(recent)
                  first6 == MeanTimes6(HeadN(recent, HalfBins))
                  last6 == MeanTimes6(TailN(recent, HalfBins))
                  trend6 == IF first6 > 0 THEN last6 - first6 ELSE 0
              IN  Max(0, baseline6 + trend6 \div 2)

----------------------------------------------------------------------------
(* Render: realized revenue, latest forecast, forecast error *)

Fraction(num, den) == [num |-> num, den |-> den]

RECURSIVE SumAfter(_, _)
SumAfter(evs, cutoff) ==
    IF evs = <<>> THEN 0
    ELSE (IF After(to_datetime_s(Head(evs).timestamp), cutoff)
          THEN Head(evs).price ELSE 0)
         + SumAfter(Tail(evs), cutoff)

\* recent_60s = df[df["time"] > pd.Timestamp.now() - Timedelta(seconds=60)]
\* last_60s_actual = recent_60s["price"].sum()
Last60sActual(evs, now, offset) ==
    SumAfter(evs, MinusSeconds(TimestampNow(now, offset), RecentSeconds))

\* forecasts[-1][1] if forecasts else 0.0
LatestForecast(fcs) == IF fcs # <<>> THEN fcs[Len(fcs)][2] ELSE 0

MapeNoAbs(predicted, actual) ==
    IF actual > 0 THEN Fraction((predicted - actual) * 100, actual)
    ELSE Fraction(0, 1)

\* abs(latest_forecast - last_60s_actual) / last_60s_actual * 100
\*     if last_60s_actual > 0 else 0.0
Mape(predicted, actual) ==
    IF actual > 0 THEN Fraction(Abs(predicted - actual) * 100, actual)
    ELSE Fraction(0, 1)

----------------------------------------------------------------------------
(* The forecast dashboard: session state and one refresh pass *)

\* "if ... not in st.session_state" defaults, before the first pass
Init ==
    /\ app = "forecast_dashboard"
    /\ clock = StartTime
    /\ utc_offset \in UtcOffsets
    /\ should_run = TRUE
    /\ events = <<>>
    /\ forecasts = <<>>
    /\ last_forecast_time = 0
    /\ sales_events = <<>>
    /\ data = <<>>
    /\ revenue_bins = <<>>
    /\ forecast_val = 0
    /\ last_60s_actual = 0
    /\ latest_forecast = 0
    /\ mape = Fraction(0, 1)
    /\ rendered = "none"
    /\ passes = 0
    /\ appended = 0
    /\ issued = <<>>
    /\ applied = {}
    /\ slider_forecast_every = ForecastEveryDefault

Buttons == {"none", "pause", "resume"}

\* the Pause / Resume button handlers
AfterButtons(button, run) ==
    IF button = "pause" THEN FALSE
    ELSE IF button = "resume" THEN TRUE
    ELSE run

IngestAlways(run, evs, new_events) == DequeExtend(evs, new_events, EventsMaxlen)

\* if should_run: events.extend(generate_sales_event(...))
Ingest(run, evs, new_events) ==
    IF run THEN DequeExtend(evs, new_events, EventsMaxlen) ELSE evs

ForecastDueStrict(run, current_time, last_time, forecast_every) ==
    run /\ current_time - last_time > forecast_every

\* should_run and (current_time - last_forecast_time >= forecast_every)
ForecastDue(run, current_time, last_time, forecast_every) ==
    run /\ current_time - last_time >= forecast_every

\* One run of forecast_dashboard.py, dt seconds after the previous one:
\* button handlers, ingestion, gated forecast, render.
RefreshPass(button, prices, forecast_every, dt) ==
    LET now == clock + dt
        run == AfterButtons(button, should_run)
        due == ForecastDue(run, now, last_forecast_time, forecast_every)
    IN  /\ clock' = now
        /\ should_run' = run
        /\ events' = Ingest(run, events, generate_sales_event(now, prices))
        /\ appended' = IF run THEN appended + Len(prices) ELSE appended
        /\ revenue_bins' = IF due THEN aggregate_to_10s_bins(events', now)
                           ELSE revenue_bins
        /\ forecast_val' = IF due THEN forecast_next_60s_simple(revenue_bins')
                           ELSE forecast_val
        /\ forecasts' = IF due
                        THEN ForecastsTrim(Append(forecasts, <<now, forecast_val'>>))
                        ELSE forecasts
        /\ issued' = IF due THEN Append(issued, <<now, forecast_val'>>)
                     ELSE issued
        /\ last_forecast_time' = IF due THEN now ELSE last_forecast_time
        /\ IF events' # <<>>
           THEN /\ rendered' = "dashboard"
                /\ last_60s_actual' = Last60sActual(events', now, utc_offset)
                /\ latest_forecast' = LatestForecast(forecasts')
                /\ mape' = Mape(latest_forecast', last_60s_actual')
           ELSE /\ rendered' = "info"
                /\ UNCHANGED <<last_60s_actual, latest_forecast, mape>>
        /\ passes' = passes + 1
        /\ slider_forecast_every' = forecast_every
        /\ UNCHANGED <<app, utc_offset, sales_events, data, applied>>

\* the batches generate_sales_event may return: 1..n orders
Batches(n, priceSet) == UNION {[1..k -> priceSet] : k \in 1..n}

Pass ==
    /\ passes < MaxPasses
    /\ \E button \in Buttons,
          prices \in Batches(MaxOrders, {UnitPrice}),
          forecast_every \in {ForecastEveryMin, ForecastEveryMax},
          dt \in {ShortDt, LongDt} :
            RefreshPass(button, prices, forecast_every, dt)

Next == Pass

Spec == Init /\ [][Next]_vars

\* A long undisturbed session: one order per pass, sliders left alone.
LongPass ==
    /\ passes < MaxLongPasses
    /\ RefreshPass("none", <<UnitPrice>>, ForecastEveryDefault, LongDt)

NextLong == LongPass

SpecLong == Init /\ [][NextLong]_vars

----------------------------------------------------------------------------
(* The three event buffers.  Only the buffer matters here, so an event is  *)
(* identified by its position in the feed: the k-th event appended is k.   *)

InitBuffers ==
    /\ app \in {"forecast_dashboard", "sales_dashboard", "app"}
    /\ clock = StartTime
    /\ utc_offset = 0
    /\ should_run = TRUE
    /\ events = <<>>
    /\ forecasts = <<>>
    /\ last_forecast_time = 0
    /\ sales_events = <<>>
    /\ data = <<>>
    /\ revenue_bins = <<>>
    /\ forecast_val = 0
    /\ last_60s_actual = 0
    /\ latest_forecast = 0
    /\ mape = Fraction(0, 1)
    /\ rendered = "none"
    /\ passes = 0
    /\ appended = 0
    /\ issued = <<>>
    /\ applied = {}
    /\ slider_forecast_every = ForecastEveryDefault

NextInFeed(n) == [i \in 1..n |-> appended + i]

\* sales_dashboard.py: if should_run: sales_events.extend(new_events)
IngestSales(run, evs, new_events) ==
    IF run THEN DequeExtend(evs, new_events, SalesEventsMaxlen) ELSE evs

\* app.py: if should_run: data.append(new_point); data = data[-100:]
IngestData(run, l, new_point) ==
    IF run THEN AppendKeepLast(l, new_point, DataKeep) ELSE l

\* forecast_dashboard.py, buttons and ingestion of a pass
ForecastIngestPass(button, n) ==
    /\ app = "forecast_dashboard"
    /\ appended < EventsMaxlen + Overrun
    /\ should_run' = AfterButtons(button, should_run)
    /\ events' = Ingest(should_run', events, NextInFeed(n))
    /\ appended' = IF should_run' THEN appended + n ELSE appended
    /\ UNCHANGED <<slider_forecast_every, app, clock, utc_offset, forecasts, last_forecast_time,
                   sales_events, data, revenue_bins, forecast_val,
                   last_60s_actual, latest_forecast, mape, rendered, passes,
                   issued, applied>>

\* sales_dashboard.py, buttons and ingestion of a pass
SalesIngestPass(button, n) ==
    /\ app = "sales_dashboard"
    /\ appended < SalesEventsMaxlen + Overrun
    /\ should_run' = AfterButtons(button, should_run)
    /\ sales_events' = IngestSales(should_run', sales_events, NextInFeed(n))
    /\ appended' = IF should_run' THEN appended + n ELSE appended
    /\ UNCHANGED <<slider_forecast_every, app, clock, utc_offset, events, forecasts,
                   last_forecast_time, data, revenue_bins, forecast_val,
                   last_60s_actual, latest_forecast, mape, rendered, passes,
                   issued, applied>>

\* app.py, buttons and ingestion of a pass
DataIngestPass(button) ==
    /\ app = "app"
    /\ appended < DataKeep + Overrun
    /\ should_run' = AfterButtons(button, should_run)
    /\ data' = IngestData(should_run', data, appended + 1)
    /\ appended' = IF should_run' THEN appended + 1 ELSE appended
    /\ UNCHANGED <<slider_forecast_every, app, clock, utc_offset, events, forecasts,
                   last_forecast_time, sales_events, revenue_bins,
                   forecast_val, last_60s_actual, latest_forecast, mape,
                   rendered, passes, issued, applied>>

ForecastIngest == \E b \in Buttons, n \in 1..MaxOrdersPerTick : ForecastIngestPass(b, n)

SalesIngest == \E b \in Buttons, n \in 1..MaxOrdersPerTick : SalesIngestPass(b, n)

DataIngest == \E b \in Buttons : DataIngestPass(b)

NextBuffers == ForecastIngest \/ SalesIngest \/ DataIngest

SpecBuffers == InitBuffers /\ [][NextBuffers]_vars

----------------------------------------------------------------------------
(* aggregate_to_10s_bins applied to drawn inputs *)

TimestampInputs == {0 - 601, 0 - 600, 0 - 5, 3, 10, 1700000003, 1700000012}

PriceInputs == {15, 40}

NowInputs == {5, 1700000015, 2000000000}

EventInputs == [timestamp : TimestampInputs, price : PriceInputs]

EventListInputs == {<<>>} \cup [1..1 -> EventInputs] \cup [1..2 -> EventInputs]

InitBins ==
    /\ app = "forecast_dashboard"
    /\ clock \in NowInputs
    /\ utc_offset = 0
    /\ should_run = TRUE
    /\ events \in EventListInputs
    /\ forecasts = <<>>
    /\ last_forecast_time = 0
    /\ sales_events = <<>>
    /\ data = <<>>
    /\ revenue_bins = <<>>
    /\ forecast_val = 0
    /\ last_60s_actual = 0
    /\ latest_forecast = 0
    /\ mape = Fraction(0, 1)
    /\ rendered = "none"
    /\ passes = 0
    /\ appended = 0
    /\ issued = <<>>
    /\ applied = {}
    /\ slider_forecast_every = ForecastEveryDefault

\* revenue_bins = aggregate_to_10s_bins(list(events), current_time)
Aggregate ==
    /\ "aggregate" \notin applied
    /\ revenue_bins' = aggregate_to_10s_bins(events, clock)
    /\ applied' = applied \cup {"aggregate"}
    /\ UNCHANGED <<slider_forecast_every, app, clock, utc_offset, should_run, events, forecasts,
                   last_forecast_time, sales_events, data, forecast_val,
                   last_60s_actual, latest_forecast, mape, rendered, passes,
                   appended, issued>>

NextBins == Aggregate

SpecBins == InitBins /\ [][NextBins]_vars

----------------------------------------------------------------------------
(* forecast_next_60s_simple and the error metric applied to drawn inputs *)

ValueInputs == {0 - 10, 0, 10, 20}

ShortValueInputs == {0 - 10, 0, 10}

MakeSeries(vals) ==
    [i \in DOMAIN vals |-> [bin |-> Datetime(i * BinSeconds, 0), revenue |-> vals[i]]]

SeriesInputs ==
    {MakeSeries(v) : v \in {<<>>} \cup [1..5 -> ShortValueInputs]
                               \cup [1..6 -> ValueInputs]
                               \cup {<<x>> \o w : x \in {0 - 10, 20},
                                                  w \in [1..6 -> ShortValueInputs]}}

ActualInputs == {0, 15, 40}

InitForecast ==
    /\ app = "forecast_dashboard"
    /\ clock = StartTime
    /\ utc_offset = 0
    /\ should_run = TRUE
    /\ events = <<>>
    /\ forecasts = <<>>
    /\ last_forecast_time = 0
    /\ sales_events = <<>>
    /\ data = <<>>
    /\ revenue_bins \in SeriesInputs
    /\ forecast_val = 0
    /\ last_60s_actual \in ActualInputs
    /\ latest_forecast = 0
    /\ mape = Fraction(0, 1)
    /\ rendered = "none"
    /\ passes = 0
    /\ appended = 0
    /\ issued = <<>>
    /\ applied = {}
    /\ slider_forecast_every = ForecastEveryDefault

\* forecast_val = forecast_next_60s_simple(revenue_bins), appended to the
\* history, the history trimmed
IssueForecast ==
    /\ applied = {}
    /\ forecast_val' = forecast_next_60s_simple(revenue_bins)
    /\ forecasts' = ForecastsTrim(Append(forecasts, <<clock, forecast_val'>>))
    /\ issued' = Append(issued, <<clock, forecast_val'>>)
    /\ last_forecast_time' = clock
    /\ applied' = applied \cup {"forecast"}
    /\ UNCHANGED <<slider_forecast_every, app, clock, utc_offset, should_run, events, sales_events,
                   data, revenue_bins, last_60s_actual, latest_forecast, mape,
                   rendered, passes, appended>>

\* latest_forecast and mape of the render, for the realized revenue drawn
Evaluate ==
    /\ "mape" \notin applied
    /\ latest_forecast' = LatestForecast(forecasts)
    /\ mape' = Mape(latest_forecast', last_60s_actual)
    /\ rendered' = "dashboard"
    /\ applied' = applied \cup {"mape"}
    /\ UNCHANGED <<slider_forecast_every, app, clock, utc_offset, should_run, events, forecasts,
                   last_forecast_time, sales_events, data, revenue_bins,
                   forecast_val, last_60s_actual, passes, appended, issued>>

NextForecast == IssueForecast \/ Evaluate

SpecForecast == InitForecast /\ [][NextForecast]_vars

----------------------------------------------------------------------------
(* Claims *)

Buffer == CASE app = "forecast_dashboard" -> events
            [] app = "sales_dashboard" -> sales_events
            [] OTHER -> data

Capacity == CASE app = "forecast_dashboard" -> EventsMaxlen
              [] app = "sales_dashboard" -> SalesEventsMaxlen
              [] OTHER -> DataKeep

\* C1: after N events were appended in total (singly or in batches of 1 to
\* 4), a buffer of capacity C holds min(N, C) events, and they are the last
\* min(N, C) events of the feed in insertion order.
C1_BufferHoldsLastEvents ==
    /\ Len(Buffer) = Min(appended, Capacity)
    /\ \A i \in 1..Len(Buffer) : Buffer[i] = appended - Len(Buffer) + i

C1_Witness ==
    /\ app = "forecast_dashboard"
    /\ appended > EventsMaxlen + 1
    /\ Len(events) = EventsMaxlen
    /\ events[1] = appended - EventsMaxlen + 1

Aggregated == "aggregate" \in applied

RECURSIVE SumWithin(_, _, _)
\* the prices of the events whose timestamp t has lo <= t < hi, summed
SumWithin(evs, lo, hi) ==
    IF evs = <<>> THEN 0
    ELSE (IF lo <= Head(evs).timestamp /\ Head(evs).timestamp < hi
          THEN Head(evs).price ELSE 0)
         + SumWithin(Tail(evs), lo, hi)

FloorOfNow == (clock \div BinSeconds) * BinSeconds

\* C2: for a non-empty event list, the bins returned are window / width + 1
\* many (61), their starts run from end_bin - window to end_bin in steps of
\* one bin width, where end_bin = floor(now / 10) * 10, and a bin that no
\* event falls into has aggregate 0.
C2_BinsRunToFloorOfNow ==
    (Aggregated /\ events # <<>>) =>
        /\ Len(revenue_bins) = WindowSeconds \div BinSeconds + 1
        /\ \A i \in DOMAIN revenue_bins :
              /\ revenue_bins[i].bin =
                     Datetime(FloorOfNow - WindowSeconds + (i - 1) * BinSeconds, 0)
              /\ (\A k \in DOMAIN events :
                     (events[k].timestamp \div BinSeconds) * BinSeconds
                         # revenue_bins[i].bin.sec)
                 => revenue_bins[i].revenue = 0

Forecast == "forecast" \in applied

\* the last 6 values of the series, oldest first, as r[1..6]
Recent6 == LET v == Values(revenue_bins)
           IN  [k \in 1..6 |-> v[Len(v) - 6 + k]]

\* C4: for a series of at least 6 bins whose last 6 values do not sum to
\* zero the forecast is max(0, baseline + trend / 2) * 6, baseline the mean
\* of the last 6, trend = mean(last 3) - mean(first 3) if mean(first 3) > 0
\* and 0 otherwise; [10,10,10,20,20,20] gives 120.  (Six times
\* baseline + trend / 2 is first + last + (last - first), sums of 3.)
C4_TrendAdjustedForecast ==
    (Forecast /\ Len(revenue_bins) >= 6) =>
        LET r == Recent6
            first == r[1] + r[2] + r[3]
            last == r[4] + r[5] + r[6]
        IN  /\ (first + last # 0 /\ first > 0) =>
                   forecast_val = Max(0, first + last + (last - first))
            /\ (first + last # 0 /\ first <= 0) =>
                   forecast_val = Max(0, first + last)
            /\ Values(revenue_bins) = <<10, 10, 10, 20, 20, 20>> =>
                   forecast_val = 120

C4_Witness ==
    /\ Forecast
    /\ Values(revenue_bins) = <<10, 10, 10, 20, 20, 20>>
    /\ forecast_val = 120

\* C5: the forecast is 0 for a series of fewer than 6 bins, the empty series
\* aggregate_to_10s_bins returns for an empty buffer included, and for a
\* series whose last 6 values sum to zero.
C5_DegenerateForecastIsZero ==
    /\ Forecast =>
          \/ Len(revenue_bins) < 6 /\ forecast_val = 0
          \/ Len(revenue_bins) >= 6 /\ SeqSum(Recent6) = 0 /\ forecast_val = 0
          \/ Len(revenue_bins) >= 6 /\ SeqSum(Recent6) # 0
    /\ aggregate_to_10s_bins(<<>>, clock) = <<>>
    /\ forecast_next_60s_simple(aggregate_to_10s_bins(<<>>, clock)) = 0

C5_Witness ==
    /\ Forecast
    /\ Len(revenue_bins) = 5
    /\ \A i \in DOMAIN revenue_bins : revenue_bins[i].revenue > 0
    /\ forecast_val = 0

\* C6: the forecast is never negative, whatever the series (negative values
\* included), and so is every predicted value in the forecast history.
C6_ForecastNonNegative ==
    /\ forecast_val >= 0
    /\ \A i \in DOMAIN forecasts : forecasts[i][2] >= 0

C6_Witness ==
    /\ Forecast
    /\ Len(revenue_bins) >= 6
    /\ \A i \in DOMAIN revenue_bins : revenue_bins[i].revenue < 0
    /\ forecasts # <<>>
    /\ forecasts[Len(forecasts)][2] = 0

\* C7: the forecast error is |predicted - realized| / realized * 100 when the
\* realized revenue is > 0 and 0 when it is 0, whatever the prediction; the
\* prediction is the latest forecast record's value, 0 when there is none.
C7_ForecastError ==
    rendered = "dashboard" =>
        /\ mape.den # 0
        /\ last_60s_actual > 0 =>
              /\ latest_forecast >= last_60s_actual =>
                    mape.num * last_60s_actual
                        = (latest_forecast - last_60s_actual) * 100 * mape.den
              /\ latest_forecast < last_60s_actual =>
                    mape.num * last_60s_actual
                        = (last_60s_actual - latest_forecast) * 100 * mape.den
        /\ last_60s_actual = 0 => mape.num = 0
        /\ forecasts = <<>> => latest_forecast = 0
        /\ forecasts # <<>> => latest_forecast = forecasts[Len(forecasts)][2]

C7_Witness ==
    /\ rendered = "dashboard"
    /\ forecasts # <<>>
    /\ latest_forecast > 0
    /\ latest_forecast < last_60s_actual
    /\ mape.num > 0

\* C8: a pass that runs with the pause flag set appends no event and issues
\* no forecast: events, forecasts and last_forecast_time are unchanged, and
\* a non-empty buffer is still rendered; events change only in a pass that
\* runs with should_run True.
C8_PausedPassIsInert ==
    [][/\ (passes' = passes + 1 /\ ~should_run') =>
              /\ events' = events
              /\ forecasts' = forecasts
              /\ last_forecast_time' = last_forecast_time
              /\ events # <<>> => rendered' = "dashboard"
       /\ events' # events => should_run']_vars

C8_Witness ==
    /\ ~should_run
    /\ events # <<>>
    /\ rendered = "dashboard"
    /\ passes >= 3
    /\ clock - last_forecast_time >= ForecastEveryMax

\* C9: when the forecast error is computed, the forecast compared was issued
\* at least one horizon (60 seconds) before.
C9_ErrorComparesElapsedForecast ==
    (rendered = "dashboard" /\ forecasts # <<>>) =>
        clock - forecasts[Len(forecasts)][1] >= RecentSeconds

\* C10: the forecast history holds at most 20 records, the most recently
\* issued ones in issue order.
C10_HistoryKeepsLast20 ==
    /\ Len(forecasts) <= 20
    /\ Len(forecasts) = Min(Len(issued), 20)
    /\ \A i \in 1..Len(forecasts) :
          forecasts[i] = issued[Len(issued) - Len(forecasts) + i]

C10_Witness ==
    /\ Len(issued) > 21
    /\ Len(forecasts) = 20
    /\ forecasts[1] = issued[Len(issued) - 19]

\* the distinct time.time() readings of the buffered events
EventTimes == {events[i].timestamp : i \in DOMAIN events}

\* C11: a pass creates a forecast record only if the dashboard is running
\* and current_time - last_forecast_time >= forecast_every, the interval in
\* effect in that pass, and then it creates exactly one, stamped with the
\* pass's time, and sets last_forecast_time to that time; otherwise the
\* history and last_forecast_time are unchanged.  So a new record is at
\* least that pass's forecast_every after the record before it, and while
\* no forecast was issued yet (last_forecast_time 0) a running pass always
\* issues one.
C11_ForecastGate ==
    [][passes' = passes + 1 =>
          /\ (should_run' /\ clock' - last_forecast_time >= slider_forecast_every') =>
                /\ issued' = Append(issued, <<clock', forecast_val'>>)
                /\ forecasts' # <<>>
                /\ forecasts'[Len(forecasts')] = <<clock', forecast_val'>>
                /\ last_forecast_time' = clock'
          /\ ~(should_run' /\ clock' - last_forecast_time >= slider_forecast_every') =>
                /\ issued' = issued
                /\ forecasts' = forecasts
                /\ last_forecast_time' = last_forecast_time
          /\ (issued' # issued /\ Len(forecasts') >= 2) =>
                forecasts'[Len(forecasts')][1] - forecasts'[Len(forecasts') - 1][1]
                    >= slider_forecast_every'
          /\ (issued = <<>> /\ should_run') => Len(issued') = 1]_vars

C11_Witness ==
    /\ passes = 3
    /\ Cardinality(EventTimes) = 3
    /\ Len(forecasts) = 2
    /\ forecasts[2][1] - forecasts[1][1] = ShortDt + LongDt
    /\ last_forecast_time = forecasts[2][1]

====
